---- MODULE Spec2Model ----
(***************************************************************************)
(* Disk-based classic Bloom filter (filter.go): the file layout            *)
(* | len of metadata size (2 bytes) | metadata | bloom filter |, New,      *)
(* Close, the every-second goroutine, Exist and ExistOrAdd, with caller    *)
(* goroutines interleaved at the granularity of the mutex and of single    *)
(* file writes.                                                            *)
(***************************************************************************)
EXTENDS Integers, Sequences, FiniteSets, TLC

(***************************************************************************)
(* Program constants                                                       *)
(***************************************************************************)
FsyncModeAlways == 0
FsyncModeEverySec == 1
FsyncModeNo == 2
LenOfMetadataSize == 2

FsyncModes == {FsyncModeAlways, FsyncModeEverySec, FsyncModeNo}

(***************************************************************************)
(* Bounds of the model                                                     *)
(***************************************************************************)
\* calls of Exist/ExistOrAdd over one run
MaxCalls == 2
\* calls of New over one run
MaxOpens == 2
\* width of the hash words, standing for the 64 bits of uint64
HashWidth == 4

Threads == {"t1", "t2"}
Entries == {1, 2}
MetadataSizes == {0, 1, 256}
\* arguments the resolver passes to OptimalParam: n, and p = 2^(-q/4)
ExpectedEntries == {1, 6}
FprQuarterBits == {1, 2, 8}
\* length of the replacement metadata a resolver returns; -1 is nil
UpdLens == {-1, 0, 1}

Word == 2 ^ HashWidth

(***************************************************************************)
(* Bytes and files.  A file is its length and its non-zero bytes: the      *)
(* bytes of a hole read as zero.                                           *)
(***************************************************************************)
EmptyFile == [len |-> 0, data |-> {}]

\* the byte of a map from position to byte, kept as a set of <<position, byte>>
Lookup(m, pos) == (CHOOSE pr \in m : pr[1] = pos)[2]

Has(m, pos) == \E pr \in m : pr[1] = pos

Store(m, pos, v) == {pr \in m : pr[1] # pos} \cup {<<pos, v>>}

Delete(m, pos) == {pr \in m : pr[1] # pos}

ByteAt(f, pos) == IF Has(f.data, pos) THEN Lookup(f.data, pos) ELSE 0

\* a plausible slip: the byte is tested, not the bit
TestBitAnyBit(b, i) == b # 0

\* b & (1 << i) != 0
TestBit(b, i) == (b \div (2 ^ i)) % 2 = 1

\* a plausible slip: the cached byte is replaced by the mask
OrBitOnlyMask(b, i) == 2 ^ i

\* a plausible slip: the cached byte is left as read
OrBitDropped(b, i) == b

\* b | (1 << i)
OrBit(b, i) == IF TestBit(b, i) THEN b ELSE b + 2 ^ i

\* f.WriteAt([]byte{v}, pos) on an open handle: a write past the end extends the file
WriteByte(f, pos, v) ==
    [len |-> IF pos + 1 > f.len THEN pos + 1 ELSE f.len,
     data |-> IF v = 0 THEN Delete(f.data, pos) ELSE Store(f.data, pos, v)]

\* f.WriteAt(bytes, pos): the bytes of a sequence, one after the other
RECURSIVE WriteBytes(_, _, _)
WriteBytes(f, pos, bytes) ==
    IF bytes = <<>> THEN f
    ELSE WriteBytes(WriteByte(f, pos, Head(bytes)), pos + 1, Tail(bytes))

\* binary.LittleEndian.PutUint16
PutUint16(v) == <<v % 256, (v \div 256) % 256>>

\* a plausible slip: only the low byte is decoded
Uint16LowByte(f) == ByteAt(f, 0)

\* binary.LittleEndian.Uint16 of the two bytes at the head of the file
Uint16(f) == ByteAt(f, 0) + 256 * ByteAt(f, 1)

(***************************************************************************)
(* OptimalParam.  The false positive rate is p = 2^(-q/4) for a number q   *)
(* of quarter bits, so that k = -ln(p) * log2(e) = q/4; log2(e) is the     *)
(* ratio Log2ENum / Log2EDen.                                              *)
(***************************************************************************)
Log2ENum == 14427
Log2EDen == 10000

\* uint8(k + 0.5), no lower limit
OptimalSlots(q) == ((q + 2) \div 4) % 256

\* uint64(m / 8 * 8) with m = n * k * log2(e): the float division and
\* multiplication by 8 cancel, and the conversion truncates
OptimalBits(n, q) == (n * q * Log2ENum) \div (4 * Log2EDen)

OptimalParam(n, q) == [Slots |-> OptimalSlots(q), Bits |-> OptimalBits(n, q)]

(***************************************************************************)
(* The double hash of the caller (doubleFNV in the tests): two words per   *)
(* entry.                                                                  *)
(***************************************************************************)
HashX(e) == (5 * e + 1) % Word
HashY(e) == (3 * e + 4) % Word

\* (x + uint64(i)*y) % f.param.Bits, in words that wrap
bloomOffset(bits, x, y, i) == ((x + ((i * y) % Word)) % Word) % bits

\* a plausible slip: the metadata region is left out of the offset
fileOffsetNoMetadata(ms, off) == LenOfMetadataSize + off

\* fileOffset: relative to the beginning of the file
fileOffset(ms, off) == LenOfMetadataSize + ms + off

\* insertion of v into an ascending sequence
RECURSIVE InsertAsc(_, _)
InsertAsc(s, v) ==
    IF s = <<>> THEN <<v>>
    ELSE IF v < Head(s) THEN <<v>> \o s
    ELSE <<Head(s)>> \o InsertAsc(Tail(s), v)

\* offsets[i] = bloomOffset(x, y, i) for i < Slots, then sort.Slice ascending
RECURSIVE SortedOffsets(_, _, _)
SortedOffsets(p, e, i) ==
    IF i = 0 THEN <<>>
    ELSE InsertAsc(SortedOffsets(p, e, i - 1), bloomOffset(p.Bits, HashX(e), HashY(e), i - 1))

Offsets(p, e) == SortedOffsets(p, e, p.Slots)

(***************************************************************************)
(* State                                                                   *)
(***************************************************************************)
VARIABLES
    file,        \* the file as the operating system shows it (page cache)
    stable,      \* the file as it is on stable storage
    filter,      \* New has returned a filter
    controller,  \* the Controller given to the last call of New
    param,       \* DiskFilter.param
    handle,      \* muFile.f: "none", "open" or "closed"
    fileFsync,   \* muFile.fsync
    modified,    \* muFile.modified
    mu,          \* muFile.mu: "" when free, else its holder
    closed,      \* DiskFilter.closed has been closed
    th,          \* the caller goroutines
    last,        \* the Exist or ExistOrAdd that returned last: entry, result
    tpc,         \* the eventEverySec goroutine
    panicked,    \* "" or the runtime panic that ended the process
    newErr,      \* the error the last call of New returned
    gpCalled,    \* the last call of New called GetParam
    opens,       \* calls of New so far
    calls,       \* calls of Exist and ExistOrAdd so far
    fresh,       \* the file was empty when the filter was opened
    addedHere,   \* entries whose ExistOrAdd returned on this filter while open
    addedBefore, \* <<param, entry>> added on earlier filters of this file
    falseRets,   \* ExistOrAdd calls on this filter that returned false
    sigCount,    \* times close(f.closed) was executed on this filter
    fdCloses,    \* times the open handle was closed on this filter
    ioFailed     \* the device fails every read, write and flush

vars == <<file, stable, filter, controller, param, handle, fileFsync, modified, mu,
          closed, th, last, tpc, panicked, newErr, gpCalled, opens, calls, fresh,
          addedHere, addedBefore, falseRets, sigCount, fdCloses, ioFailed>>

Idle == [pc |-> "idle", op |-> "", e |-> 0, m |-> {}]

NoCall == [op |-> "", e |-> 0, ret |-> ""]

\* the call that returns: its operation, its entry, its result
Returned(t, r) == [op |-> th[t].op, e |-> th[t].e, ret |-> r]

NoController == [Fsync |-> FsyncModeAlways, MetadataSize |-> 0, Control |-> FALSE,
                 n |-> 0, q |-> 0, updLen |-> -1]

\* GetParam of a Controller returns OptimalParam(n, 2^(-q/4)) and, unless
\* updLen is -1, updLen zero bytes of replacement metadata
AllControllers ==
    [Fsync : FsyncModes, MetadataSize : MetadataSizes, Control : BOOLEAN,
     n : ExpectedEntries, q : FprQuarterBits, updLen : UpdLens]

PlainDurability(c) == c.Fsync = FsyncModeNo /\ ~c.Control
PlainLayout(c) == c.MetadataSize = 1 /\ c.updLen = -1
PlainParam(c) == c.n = 6 /\ c.q = 8

\* the Controllers a caller gives: each varies one of the durability, the
\* layout and the parameters
Controllers ==
    {c \in AllControllers :
        \/ PlainDurability(c) /\ PlainLayout(c)
        \/ PlainDurability(c) /\ PlainParam(c)
        \/ PlainLayout(c) /\ PlainParam(c)}

Init ==
    /\ file = EmptyFile
    /\ stable = EmptyFile
    /\ filter = FALSE
    /\ controller = NoController
    /\ param = [Slots |-> 0, Bits |-> 0]
    /\ handle = "none"
    /\ fileFsync = FsyncModeAlways
    /\ modified = FALSE
    /\ mu = ""
    /\ closed = FALSE
    /\ th = [t \in Threads |-> Idle]
    /\ last = NoCall
    /\ tpc = "off"
    /\ panicked = ""
    /\ newErr = ""
    /\ gpCalled = FALSE
    /\ opens = 0
    /\ calls = 0
    /\ fresh = FALSE
    /\ addedHere = {}
    /\ addedBefore = {}
    /\ falseRets = 0
    /\ sigCount = 0
    /\ fdCloses = 0
    /\ ioFailed = FALSE

(***************************************************************************)
(* File access through the handle of the filter                            *)
(***************************************************************************)
\* the handle is open and the device answers
Usable == handle = "open" /\ ~ioFailed

\* f.file.f.ReadAt(b[:], pos) with the error dropped: b[0] stays 0 on failure
ReadAt(pos) == IF Usable /\ pos < file.len THEN ByteAt(file, pos) ELSE 0

\* the handle was opened with O_SYNC
OSync == controller.Fsync = FsyncModeAlways

ZeroBytes(n) == [i \in 1..n |-> 0]

(***************************************************************************)
(* New                                                                     *)
(***************************************************************************)
\* param, updatedMetadata = controller.GetParam(...)
GetParam(c) ==
    [param |-> OptimalParam(c.n, c.q),
     updNil |-> c.updLen = -1,
     upd |-> IF c.updLen = -1 THEN <<>> ELSE ZeroBytes(c.updLen)]

\* the writes of a list of <<position, bytes>>, in order
RECURSIVE ApplyWrites(_, _)
ApplyWrites(f, ws) ==
    IF ws = <<>> THEN f
    ELSE ApplyWrites(WriteBytes(f, Head(ws)[1], Head(ws)[2]), Tail(ws))

\* the branch "create a new file": one byte at the end, then the header
CreateWrites(c, p) ==
    << <<LenOfMetadataSize + c.MetadataSize + (p.Bits \div 8), <<0>> >>,
       <<0, PutUint16(c.MetadataSize)>> >>

\* the outcome of New on file f: the error, whether GetParam was called, the
\* writes issued before New returned
NewOutcome(f, c) ==
    LET g == GetParam(c)
        afterRead ==
            IF ioFailed
            THEN [err |-> "EIO", gp |-> FALSE, writes |-> <<>>]
            ELSE IF f.len = 0
            THEN [err |-> "", gp |-> TRUE, writes |-> CreateWrites(c, g.param)]
            ELSE IF f.len < LenOfMetadataSize
            THEN [err |-> "EOF", gp |-> FALSE, writes |-> <<>>]
            ELSE IF Uint16(f) # c.MetadataSize
            THEN [err |-> "InconsistentMetadataSizeErr", gp |-> FALSE, writes |-> <<>>]
            ELSE IF f.len < LenOfMetadataSize + c.MetadataSize
            THEN [err |-> "EOF", gp |-> FALSE, writes |-> <<>>]
            ELSE [err |-> "", gp |-> TRUE, writes |-> <<>>]
    IN  IF afterRead.err # "" \/ g.updNil
        THEN afterRead
        ELSE IF Len(g.upd) # c.MetadataSize
        THEN [afterRead EXCEPT !.err = "InconsistentMetadataSizeErr"]
        ELSE [afterRead EXCEPT !.writes = Append(@, <<LenOfMetadataSize, g.upd>>)]

\* the goroutine is started when Fsync is EverySec or Control is set
StartsTicker(c) == c.Fsync = FsyncModeEverySec \/ c.Control

New(c) ==
    /\ panicked = ""
    /\ opens < MaxOpens
    /\ \/ ~filter
       \/ handle = "closed" /\ tpc = "off" /\ mu = "" /\ \A t \in Threads : th[t].pc = "idle"
    /\ LET o == NewOutcome(file, c)
       IN  /\ file' = ApplyWrites(file, o.writes)
           /\ stable' = IF c.Fsync = FsyncModeAlways
                        THEN ApplyWrites(stable, o.writes) ELSE stable
           /\ newErr' = o.err
           /\ gpCalled' = o.gp
           /\ filter' = (o.err = "")
           /\ handle' = IF o.err = "" THEN "open" ELSE "none"
           /\ param' = IF o.err = "" THEN GetParam(c).param ELSE param
           /\ tpc' = IF o.err = "" /\ StartsTicker(c) THEN "wait" ELSE "off"
           /\ fresh' = (o.err = "" /\ file.len = 0)
    /\ controller' = c
    /\ fileFsync' = FsyncModeAlways
    /\ modified' = FALSE
    /\ mu' = ""
    /\ closed' = FALSE
    /\ th' = [t \in Threads |-> Idle]
    /\ last' = NoCall
    /\ opens' = opens + 1
    /\ addedBefore' = addedBefore \cup {<<param, e>> : e \in addedHere}
    /\ addedHere' = {}
    /\ falseRets' = 0
    /\ sigCount' = 0
    /\ fdCloses' = 0
    /\ UNCHANGED <<panicked, calls, ioFailed>>

(***************************************************************************)
(* Exist                                                                   *)
(***************************************************************************)
\* a plausible slip: the read cache is never found to hold the byte
CacheHitNever(m, pos) == FALSE

\* val, ok := m[pos]: the byte at pos was read earlier in this call
CacheHit(m, pos) == Has(m, pos)

\* the loop of Exist over the sorted offsets, m the read cache
RECURSIVE ScanExist(_, _, _)
ScanExist(offs, ms, m) ==
    IF offs = <<>> THEN TRUE
    ELSE LET offset == Head(offs)
             pos == fileOffset(ms, offset \div 8)
             b == IF CacheHit(m, pos) THEN Lookup(m, pos) ELSE ReadAt(pos)
         IN  IF ~TestBit(b, offset % 8) THEN FALSE
             ELSE ScanExist(Tail(offs), ms, Store(m, pos, b))

\* a call on a filter whose Bits is 0 divides by zero in bloomOffset
DividesByZero == param.Slots > 0 /\ param.Bits = 0

CanCall(t) ==
    /\ panicked = ""
    /\ filter
    /\ th[t].pc = "idle"

\* a plausible slip: the lock is taken whoever holds it
LockFreeAlways(t) == TRUE

\* f.file.mu.Lock() returns only when the mutex is free
LockFree(t) == mu = ""

\* the call of Exist up to f.file.mu.Lock(): hashing and sorting touch no
\* shared state, so the call begins where it takes the lock
ExistCall(t, e) ==
    /\ CanCall(t)
    /\ calls < MaxCalls
    /\ calls' = calls + 1
    /\ IF DividesByZero
       THEN panicked' = "integer divide by zero" /\ UNCHANGED <<th, mu>>
       ELSE /\ LockFree(t)
            /\ mu' = t
            /\ th' = [th EXCEPT ![t] = [pc |-> "e_scan", op |-> "Exist", e |-> e,
                                        m |-> {}]]
            /\ panicked' = panicked
    /\ UNCHANGED <<file, stable, filter, controller, param, handle, fileFsync, modified,
                   closed, last, tpc, newErr, gpCalled, opens, fresh, addedHere, addedBefore,
                   falseRets, sigCount, fdCloses, ioFailed>>

ExistScan(t) ==
    /\ panicked = ""
    /\ th[t].pc = "e_scan"
    /\ th' = [th EXCEPT ![t] = Idle]
    /\ last' = Returned(t, IF ScanExist(Offsets(param, th[t].e),
                                        controller.MetadataSize, {})
                           THEN "true" ELSE "false")
    /\ mu' = ""
    /\ UNCHANGED <<file, stable, filter, controller, param, handle, fileFsync, modified,
                   closed, tpc, panicked, newErr, gpCalled, opens, calls, fresh, addedHere,
                   addedBefore, falseRets, sigCount, fdCloses, ioFailed>>

(***************************************************************************)
(* ExistOrAdd                                                              *)
(***************************************************************************)
\* the first loop of ExistOrAdd: the cache m with the bits OR-ed in, and exist
RECURSIVE ScanAdd(_, _, _, _)
ScanAdd(offs, ms, m, exist) ==
    IF offs = <<>> THEN [m |-> m, exist |-> exist]
    ELSE LET offset == Head(offs)
             pos == fileOffset(ms, offset \div 8)
             b == IF CacheHit(m, pos) THEN Lookup(m, pos) ELSE ReadAt(pos)
         IN  ScanAdd(Tail(offs), ms, Store(m, pos, OrBit(b, offset % 8)),
                     exist /\ TestBit(b, offset % 8))

\* the call of ExistOrAdd up to f.file.mu.Lock()
AddCall(t, e) ==
    /\ CanCall(t)
    /\ calls < MaxCalls
    /\ calls' = calls + 1
    /\ IF DividesByZero
       THEN panicked' = "integer divide by zero" /\ UNCHANGED <<th, mu>>
       ELSE /\ LockFree(t)
            /\ mu' = t
            /\ th' = [th EXCEPT ![t] = [pc |-> "a_scan", op |-> "ExistOrAdd", e |-> e,
                                        m |-> {}]]
            /\ panicked' = panicked
    /\ UNCHANGED <<file, stable, filter, controller, param, handle, fileFsync, modified,
                   closed, last, tpc, newErr, gpCalled, opens, fresh, addedHere, addedBefore,
                   falseRets, sigCount, fdCloses, ioFailed>>

\* the first loop, and the return when every bit was set
AddScan(t) ==
    /\ panicked = ""
    /\ th[t].pc = "a_scan"
    /\ LET r == ScanAdd(Offsets(param, th[t].e), controller.MetadataSize, {}, TRUE)
       IN  IF r.exist
           THEN /\ th' = [th EXCEPT ![t] = Idle]
                /\ last' = Returned(t, "true")
                /\ mu' = ""
                /\ addedHere' = IF handle = "open" THEN addedHere \cup {th[t].e}
                                ELSE addedHere
           ELSE /\ th' = [th EXCEPT ![t].pc = "a_write", ![t].m = r.m]
                /\ UNCHANGED <<mu, addedHere, last>>
    /\ UNCHANGED <<file, stable, filter, controller, param, handle, fileFsync, modified,
                   closed, tpc, panicked, newErr, gpCalled, opens, calls, fresh, addedBefore,
                   falseRets, sigCount, fdCloses, ioFailed>>

\* the lowest position of the cache: the offsets are ascending, so the second
\* loop meets the cached bytes lowest position first
NextPos(m) == CHOOSE pos \in {pr[1] : pr \in m} : \A pr \in m : pos <= pr[1]

\* one round of the second loop that finds its byte cached: WriteAt, delete
AddWrite(t) ==
    /\ panicked = ""
    /\ th[t].pc = "a_write"
    /\ th[t].m # {}
    /\ LET pos == NextPos(th[t].m)
           val == Lookup(th[t].m, pos)
       IN  /\ file' = IF Usable THEN WriteByte(file, pos, val) ELSE file
           /\ stable' = IF Usable /\ OSync THEN WriteByte(stable, pos, val)
                        ELSE stable
           /\ th' = [th EXCEPT ![t].m = Delete(th[t].m, pos)]
    /\ UNCHANGED <<filter, controller, param, handle, fileFsync, modified, mu, closed, last,
                   tpc, panicked, newErr, gpCalled, opens, calls, fresh, addedHere,
                   addedBefore, falseRets, sigCount, fdCloses, ioFailed>>

\* f.file.modified = true, return, and the deferred Unlock
AddFinish(t) ==
    /\ panicked = ""
    /\ th[t].pc = "a_write"
    /\ th[t].m = {}
    /\ modified' = TRUE
    /\ mu' = ""
    /\ th' = [th EXCEPT ![t] = Idle]
    /\ last' = Returned(t, "false")
    /\ addedHere' = IF handle = "open" THEN addedHere \cup {th[t].e} ELSE addedHere
    /\ falseRets' = falseRets + 1
    /\ UNCHANGED <<file, stable, filter, controller, param, handle, fileFsync, closed, tpc,
                   panicked, newErr, gpCalled, opens, calls, fresh, addedBefore, sigCount,
                   fdCloses, ioFailed>>

(***************************************************************************)
(* Close                                                                   *)
(***************************************************************************)
\* f.file.f.Sync() with the error dropped
Sync == IF Usable THEN file ELSE stable

\* the select on f.closed: return nil when it is closed already
CloseCall(t) ==
    /\ CanCall(t)
    /\ th' = IF closed THEN th
             ELSE [th EXCEPT ![t] = [pc |-> "c_close", op |-> "Close", e |-> 0, m |-> {}]]
    /\ UNCHANGED <<file, stable, filter, controller, param, handle, fileFsync, modified, mu,
                   closed, last, tpc, panicked, newErr, gpCalled, opens, calls, fresh,
                   addedHere, addedBefore, falseRets, sigCount, fdCloses, ioFailed>>

\* close(f.closed): closing a closed channel panics
CloseSignal(t) ==
    /\ panicked = ""
    /\ th[t].pc = "c_close"
    /\ IF closed
       THEN /\ panicked' = "close of closed channel"
            /\ UNCHANGED <<closed, th, sigCount>>
       ELSE /\ closed' = TRUE
            /\ sigCount' = sigCount + 1
            /\ th' = [th EXCEPT ![t].pc = "c_lock"]
            /\ panicked' = panicked
    /\ UNCHANGED <<file, stable, filter, controller, param, handle, fileFsync, modified, mu,
                   last, tpc, newErr, gpCalled, opens, calls, fresh, addedHere, addedBefore,
                   falseRets, fdCloses, ioFailed>>

CloseLock(t) ==
    /\ panicked = ""
    /\ th[t].pc = "c_lock"
    /\ LockFree(t)
    /\ mu' = t
    /\ th' = [th EXCEPT ![t].pc = "c_cs"]
    /\ UNCHANGED <<file, stable, filter, controller, param, handle, fileFsync, modified,
                   closed, last, tpc, panicked, newErr, gpCalled, opens, calls, fresh,
                   addedHere, addedBefore, falseRets, sigCount, fdCloses, ioFailed>>

\* f.file.fsync != FsyncModeAlways && f.file.modified
CloseFlushes == fileFsync # FsyncModeAlways /\ modified

\* the flush, f.file.f.Close(), return nil, and the deferred Unlock
CloseRun(t) ==
    /\ panicked = ""
    /\ th[t].pc = "c_cs"
    /\ modified' = IF CloseFlushes THEN FALSE ELSE modified
    /\ stable' = IF CloseFlushes THEN Sync ELSE stable
    /\ handle' = "closed"
    /\ fdCloses' = IF handle = "open" THEN fdCloses + 1 ELSE fdCloses
    /\ mu' = ""
    /\ th' = [th EXCEPT ![t] = Idle]
    /\ UNCHANGED <<file, filter, controller, param, fileFsync, closed, last, tpc, panicked,
                   newErr, gpCalled, opens, calls, fresh, addedHere, addedBefore, falseRets,
                   sigCount, ioFailed>>

(***************************************************************************)
(* eventEverySec                                                           *)
(***************************************************************************)
\* a plausible slip: the tick does not look at f.closed
TickFireIgnoresClosed ==
    /\ panicked = ""
    /\ tpc = "wait"
    /\ tpc' = "t_lock"
    /\ UNCHANGED <<file, stable, filter, controller, param, handle, fileFsync, modified, mu,
                   closed, th, last, panicked, newErr, gpCalled, opens, calls, fresh,
                   addedHere, addedBefore, falseRets, sigCount, fdCloses, ioFailed>>

\* a tick of the ticker: the select on f.closed, return when it is closed
TickFire ==
    /\ panicked = ""
    /\ tpc = "wait"
    /\ tpc' = IF closed THEN "off" ELSE "t_lock"
    /\ UNCHANGED <<file, stable, filter, controller, param, handle, fileFsync, modified, mu,
                   closed, th, last, panicked, newErr, gpCalled, opens, calls, fresh,
                   addedHere, addedBefore, falseRets, sigCount, fdCloses, ioFailed>>

TickLock ==
    /\ panicked = ""
    /\ tpc = "t_lock"
    /\ LockFree("ticker")
    /\ mu' = "ticker"
    /\ tpc' = "t_flush"
    /\ UNCHANGED <<file, stable, filter, controller, param, handle, fileFsync, modified,
                   closed, th, last, panicked, newErr, gpCalled, opens, calls, fresh,
                   addedHere, addedBefore, falseRets, sigCount, fdCloses, ioFailed>>

\* f.file.fsync == FsyncModeEverySec && f.file.modified
TickFlushes == fileFsync = FsyncModeEverySec /\ modified

TickFlush ==
    /\ panicked = ""
    /\ tpc = "t_flush"
    /\ modified' = IF TickFlushes THEN FALSE ELSE modified
    /\ stable' = IF TickFlushes THEN Sync ELSE stable
    /\ tpc' = "t_hook"
    /\ UNCHANGED <<file, filter, controller, param, handle, fileFsync, mu, closed, th, last,
                   panicked, newErr, gpCalled, opens, calls, fresh, addedHere, addedBefore,
                   falseRets, sigCount, fdCloses, ioFailed>>

\* f.controller.Control(f.file.f, f.file.modified) when Control is set, then
\* Unlock: the hook reads the file, or writes the byte 1 at the head of the
\* metadata region
TickHook ==
    /\ panicked = ""
    /\ tpc = "t_hook"
    /\ \E w \in BOOLEAN :
          LET writes == /\ w
                        /\ controller.Control
                        /\ controller.MetadataSize > 0
                        /\ Usable
          IN  /\ file' = IF writes THEN WriteByte(file, LenOfMetadataSize, 1)
                         ELSE file
              /\ stable' = IF writes /\ OSync
                           THEN WriteByte(stable, LenOfMetadataSize, 1)
                           ELSE stable
    /\ mu' = ""
    /\ tpc' = "wait"
    /\ UNCHANGED <<filter, controller, param, handle, fileFsync, modified, closed, th, last,
                   panicked, newErr, gpCalled, opens, calls, fresh, addedHere, addedBefore,
                   falseRets, sigCount, fdCloses, ioFailed>>

(***************************************************************************)
(* Specification                                                           *)
(***************************************************************************)
(***************************************************************************)
(* Size                                                                    *)
(***************************************************************************)
\* the size of the filter in bytes: f.param.Bits / 8
Size(p) == p.Bits \div 8

(***************************************************************************)
(* The device                                                              *)
(***************************************************************************)
\* the device under the file starts to fail, between two critical sections:
\* from then on every ReadAt, WriteAt and Sync returns an error
DeviceFails ==
    /\ panicked = ""
    /\ ~ioFailed
    /\ handle = "open"
    /\ mu = ""
    /\ ioFailed' = TRUE
    /\ UNCHANGED <<file, stable, filter, controller, param, handle, fileFsync, modified, mu,
                   closed, th, last, tpc, panicked, newErr, gpCalled, opens, calls, fresh,
                   addedHere, addedBefore, falseRets, sigCount, fdCloses>>

Next ==
    \/ \E c \in Controllers : New(c)
    \/ \E t \in Threads, e \in Entries : ExistCall(t, e)
    \/ \E t \in Threads : ExistScan(t)
    \/ \E t \in Threads, e \in Entries : AddCall(t, e)
    \/ \E t \in Threads : AddScan(t)
    \/ \E t \in Threads : AddWrite(t)
    \/ \E t \in Threads : AddFinish(t)
    \/ \E t \in Threads : CloseCall(t)
    \/ \E t \in Threads : CloseSignal(t)
    \/ \E t \in Threads : CloseLock(t)
    \/ \E t \in Threads : CloseRun(t)
    \/ TickFire
    \/ TickLock
    \/ TickFlush
    \/ TickHook

Spec == Init /\ [][Next]_vars

\* the program on a device that can fail
NextIO == Next \/ DeviceFails

SpecIO == Init /\ [][NextIO]_vars

\* a step of the eventEverySec goroutine
TickerStep == TickFire \/ TickLock \/ TickFlush \/ TickHook

\* a step of a caller that holds the mutex
HolderStep ==
    \E t \in Threads :
        ExistScan(t) \/ AddScan(t) \/ AddWrite(t) \/ AddFinish(t) \/ CloseRun(t)

\* the scheduling of the Go runtime: the ticker keeps ticking, a goroutine
\* that can run does run, and so a holder of the mutex releases it
Fairness == WF_vars(TickerStep) /\ WF_vars(HolderStep)

FairSpec == Spec /\ Fairness

(***************************************************************************)
(* Properties                                                              *)
(***************************************************************************)
\* thread t takes the step that ends its scan
Scans(t) == th[t].pc \in {"e_scan", "a_scan"} /\ th'[t] # th[t]

\* thread t returns from the call it is in
Returns(t) == th[t].pc # "idle" /\ th'[t].pc = "idle"

\* the metadata size the header of a file holds, per the layout
\* [0, 2) metadataSize: u16 little-endian
PersistedMetadataSize(f) == ByteAt(f, 0) + 256 * ByteAt(f, 1)

\* the bytes of the bit field of a file, as <<position, byte>>
BitFieldBytes(f) ==
    {pr \in f.data : pr[1] >= LenOfMetadataSize + PersistedMetadataSize(f)}

\* C1: no false negatives. On an open filter, once ExistOrAdd(e) has returned,
\* every scan of a later Exist(e) or ExistOrAdd(e) ends in a return of true.
C1_NoFalseNegative ==
    [][\A t \in Threads :
          (Scans(t) /\ handle = "open" /\ th[t].e \in addedHere)
              => (th'[t].pc = "idle" /\ last'.ret = "true")]_vars

\* an Exist(e) has answered true on an open filter with at least one hash,
\* after an ExistOrAdd(e) on this filter
C1_Witness ==
    /\ handle = "open"
    /\ param.Slots > 0
    /\ last = [op |-> "Exist", e |-> last.e, ret |-> "true"]
    /\ last.e \in addedHere

\* thread t has written some but not all of the bytes of its ExistOrAdd
PartlyWritten(t) ==
    /\ th[t].pc = "a_write"
    /\ th[t].m # {}
    /\ \E i \in 1..param.Slots :
          ~Has(th[t].m, fileOffset(controller.MetadataSize,
                                   Offsets(param, th[t].e)[i] \div 8))

\* every ExistOrAdd that has returned on this fresh, open filter was for one
\* entry, and no call is under way
OnlyOneEntryAdded ==
    /\ fresh
    /\ handle = "open"
    /\ \A t \in Threads : th[t].pc = "idle"
    /\ \E e \in Entries : addedHere = {e}

\* C2: the calls on one filter are linearizable. No scan runs while another
\* ExistOrAdd has written some but not all of its bytes; and when the only
\* ExistOrAdd calls on a fresh filter were for one entry, exactly one of
\* them returned false.
C2_Linearizable ==
    [][/\ \A t \in Threads : \A u \in Threads \ {t} : Scans(u) => ~PartlyWritten(t)
       /\ (OnlyOneEntryAdded => falseRets = 1)']_vars

\* C3: the bit field only accumulates. Every bit set in the bit field of the
\* file is still set after any step: a call, a tick, Close, New on the file.
C3_BitsAccumulate ==
    [][file.len >= LenOfMetadataSize =>
          \A pr \in BitFieldBytes(file) : \A i \in 0..7 :
              TestBit(pr[2], i) => TestBit(ByteAt(file', pr[1]), i)]_vars

\* an ExistOrAdd has set bits on a filter reopened on a file whose bit field
\* held bits, with replacement metadata written by New
C3_Witness ==
    /\ filter
    /\ ~fresh
    /\ controller.updLen # -1
    /\ addedBefore # {}
    /\ last.op = "ExistOrAdd"
    /\ last.ret = "false"
    /\ Cardinality(BitFieldBytes(file)) >= 2

\* C4: persistence round trip. On a filter reopened with the parameters (and
\* so the metadata size and the hash) under which e was added on an earlier
\* filter of the file, Exist(e) returns true.
C4_PersistenceRoundTrip ==
    [][\A t \in Threads :
          (th[t].pc = "e_scan" /\ Returns(t) /\ handle = "open"
                /\ <<param, th[t].e>> \in addedBefore)
              => last'.ret = "true"]_vars

\* an Exist(e) has answered true on a reopened filter for an entry added only
\* on an earlier filter
C4_Witness ==
    /\ handle = "open"
    /\ ~fresh
    /\ param.Slots > 0
    /\ last.op = "Exist"
    /\ last.ret = "true"
    /\ <<param, last.e>> \in addedBefore
    /\ last.e \notin addedHere

\* C5: on a filter opened on an empty file, the first ExistOrAdd returns
\* false: no ExistOrAdd returns true before one has returned false.
C5_FirstAddReturnsFalse ==
    ~(fresh /\ falseRets = 0 /\ last.op = "ExistOrAdd" /\ last.ret = "true")

\* C6: metadata-size rejection. New on a file whose header holds another
\* metadata size than the Controller declares returns the mismatch error, does
\* not call GetParam, starts no goroutine, and leaves every byte as it was.
C6_MetadataSizeRejection ==
    [][(/\ opens' = opens + 1
        /\ file.len >= LenOfMetadataSize
        /\ PersistedMetadataSize(file) # controller'.MetadataSize)
       => (/\ newErr' = "InconsistentMetadataSizeErr"
           /\ ~gpCalled'
           /\ ~filter'
           /\ tpc' = "off"
           /\ file' = file
           /\ stable' = stable)]_vars

\* New has rejected a file that holds bits of entries and whose header
\* differs from the declared metadata size
C6_Witness ==
    /\ newErr = "InconsistentMetadataSizeErr"
    /\ ~gpCalled
    /\ file.len >= LenOfMetadataSize
    /\ PersistedMetadataSize(file) # controller.MetadataSize
    /\ BitFieldBytes(file) # {}

\* C7: when GetParam returns replacement metadata of another length than the
\* declared metadata size, New returns the mismatch error and has written
\* nothing to the file, on creation and on reopening.
C7_BadReplacementWritesNothing ==
    [][(/\ opens' = opens + 1
        /\ gpCalled'
        /\ controller'.updLen # -1
        /\ controller'.updLen # controller'.MetadataSize)
       => (newErr' = "InconsistentMetadataSizeErr" /\ file' = file)]_vars

\* C8: Close is idempotent under concurrent calls. The channel is closed once,
\* the handle is closed once, and no call of Close panics.
C8_CloseIdempotent ==
    /\ panicked # "close of closed channel"
    /\ sigCount <= 1
    /\ fdCloses <= 1

\* C9: in EverySec mode, a tick that finds the dirty flag set on the open
\* filter flushes the file and clears the flag.
C9_TickFlushesWhenDirty ==
    [][(/\ tpc = "t_flush"
        /\ tpc' = "t_hook"
        /\ controller.Fsync = FsyncModeEverySec
        /\ handle = "open"
        /\ modified)
       => (~modified' /\ stable' = file)]_vars

\* C10: the first Close, when the dirty flag is set and the mode is EverySec
\* or No, flushes the file before it closes the handle and clears the flag.
C10_CloseFlushesWhenDirty ==
    [][\A t \in Threads :
          (/\ th[t].pc = "c_cs"
           /\ Returns(t)
           /\ controller.Fsync # FsyncModeAlways
           /\ handle = "open"
           /\ modified)
          => (~modified' /\ stable' = file)]_vars

\* C11: an I/O failure during Exist or ExistOrAdd reaches the caller as an
\* error. A call on the open filter whose reads (and writes) of the file all
\* failed does not return true or false as if they had succeeded.
C11_IOFailurePropagated ==
    [][\A t \in Threads :
          (/\ Returns(t)
           /\ th[t].op \in {"Exist", "ExistOrAdd"}
           /\ handle = "open"
           /\ ioFailed
           /\ param.Slots > 0)
          => last'.ret = "error"]_vars

\* the bytes that hold b bits
Ceil8(b) == (b + 7) \div 8

\* C12: the bit field occupies ceil(Bits/8) bytes. The file New creates for
\* parameters with Bits > 0 and Slots >= 1 has length 2 + MetadataSize + ceil(Bits/8), and
\* Size returns ceil(Bits/8).
C12_BitFieldLength ==
    [][(/\ opens' = opens + 1
        /\ file.len = 0
        /\ filter'
        /\ param'.Bits > 0
        /\ param'.Slots >= 1)
       => (/\ file'.len = LenOfMetadataSize + controller'.MetadataSize
                              + Ceil8(param'.Bits)
           /\ Size(param') = Ceil8(param'.Bits))]_vars

\* the bit positions of entry e under parameters p, as the filter derives
\* them from the hash of e
Positions(p, e) ==
    {bloomOffset(p.Bits, HashX(e), HashY(e), i) : i \in 0..(p.Slots - 1)}

\* bit o of the bit field of file f is set, ms the metadata size
BitIsSet(f, ms, o) ==
    \E pr \in f.data : /\ pr[1] = LenOfMetadataSize + ms + (o \div 8)
                       /\ (pr[2] \div (2 ^ (o % 8))) % 2 = 1

AllSet(f, ms, P) == \A o \in P : BitIsSet(f, ms, o)

\* byte b with the bits of S set besides its own
WithBits(b, S) ==
    LET bit(i) == IF i \in S \/ (b \div (2 ^ i)) % 2 = 1 THEN 2 ^ i ELSE 0
    IN  bit(0) + bit(1) + bit(2) + bit(3) + bit(4) + bit(5) + bit(6) + bit(7)

\* the bytes an ExistOrAdd(e) has to write: each byte that holds a position
\* of e, with the bits of e in that byte OR-ed into what the file holds
BytesToWrite(f, ms, P) ==
    {<<LenOfMetadataSize + ms + (o \div 8),
       WithBits(ByteAt(f, LenOfMetadataSize + ms + (o \div 8)),
                {o2 % 8 : o2 \in {o3 \in P : o3 \div 8 = o \div 8}})>> : o \in P}

\* files f and g hold the same bytes but for the byte at pos
SameBut(f, g, pos) ==
    \A q \in 0..(IF f.len > g.len THEN f.len ELSE g.len) :
        q # pos => ByteAt(f, q) = ByteAt(g, q)

\* C13: ExistOrAdd(e) on the open filter returns true exactly when every bit
\* of e was set when it took the lock, and then file and dirty flag are as
\* they were, with no write. Otherwise it writes, byte by byte, each byte
\* that holds a bit of e with exactly the bits of e OR-ed in (also when
\* several fall in one byte or coincide), nothing else changes the file
\* meanwhile, and it returns false with the dirty flag set and every bit of e
\* set.
C13_ExistOrAddEffect ==
    [][/\ \A t \in Threads :
             LET ms == controller.MetadataSize
                 P == Positions(param, th[t].e)
             IN  /\ (th[t].pc = "a_scan" /\ th'[t] # th[t] /\ handle = "open")
                       => /\ (th'[t].pc = "idle") <=> AllSet(file, ms, P)
                          /\ th'[t].pc = "idle"
                                => /\ last' = [op |-> "ExistOrAdd", e |-> th[t].e,
                                               ret |-> "true"]
                                   /\ file' = file
                                   /\ modified' = modified
                          /\ th'[t].pc # "idle"
                                => /\ th'[t].pc = "a_write"
                                   /\ th'[t].m = BytesToWrite(file, ms, P)
                                   /\ file' = file
                 /\ (th[t].pc = "a_write" /\ th'[t].pc = "a_write"
                           /\ th'[t] # th[t] /\ handle = "open")
                       => \E pr \in th[t].m :
                             /\ th'[t].m = th[t].m \ {pr}
                             /\ ByteAt(file', pr[1]) = pr[2]
                             /\ SameBut(file', file, pr[1])
                 /\ (th[t].pc = "a_write" /\ th'[t].pc = "idle" /\ handle = "open")
                       => /\ last' = [op |-> "ExistOrAdd", e |-> th[t].e,
                                      ret |-> "false"]
                          /\ modified'
                          /\ file' = file
                          /\ AllSet(file, ms, P)
       /\ (\E t \in Threads : th[t].pc = "a_write" /\ th'[t] = th[t])
             => file' = file]_vars

\* an ExistOrAdd has returned false on the open filter for an entry with two
\* positions in one byte, and both bits are set in the file
C13_Witness ==
    /\ handle = "open"
    /\ last.op = "ExistOrAdd"
    /\ last.ret = "false"
    /\ modified
    /\ \E o1 \in Positions(param, last.e) : \E o2 \in Positions(param, last.e) :
          o1 # o2 /\ o1 \div 8 = o2 \div 8
    /\ AllSet(file, controller.MetadataSize, Positions(param, last.e))

\* C14: Exist(e) on the open filter returns true if and only if every bit
\* of e is set in the bit field, and changes nothing: from its taking the
\* lock to its return the file, its stable copy and the dirty flag stay as
\* they were.
C14_ExistFrame ==
    [][/\ \A t \in Threads :
             /\ (th[t].pc = "e_scan" /\ th'[t] # th[t] /\ handle = "open")
                   => /\ th'[t].pc = "idle"
                      /\ last' = [op |-> "Exist", e |-> th[t].e,
                                  ret |-> IF AllSet(file, controller.MetadataSize,
                                                    Positions(param, th[t].e))
                                          THEN "true" ELSE "false"]
             /\ (th[t].pc = "e_scan" \/ th'[t].pc = "e_scan")
                   => /\ file' = file
                      /\ stable' = stable
                      /\ modified' = modified]_vars

\* an Exist has returned false on the open filter for an entry some of whose
\* bits are set and some are not
C14_Witness ==
    /\ handle = "open"
    /\ last.op = "Exist"
    /\ last.ret = "false"
    /\ \E o \in Positions(param, last.e) : BitIsSet(file, controller.MetadataSize, o)
    /\ \E o \in Positions(param, last.e) : ~BitIsSet(file, controller.MetadataSize, o)

\* the positions { (x + i*y) mod m : i in 0..k-1 } of entry e, in integers
\* without a word width
ExactPositions(p, e) ==
    {(HashX(e) + i * HashY(e)) % p.Bits : i \in 0..(p.Slots - 1)}

\* C15: the bits that Exist tests and ExistOrAdd sets for an entry with hash
\* (x, y) are those at { (x + i*y) mod Bits : i in 0..Slots-1 }, also when
\* x + i*y exceeds the word, each at byte 2 + MetadataSize + position/8 with
\* mask 1 << (position % 8): the scan of Exist answers whether all of these
\* are set, and the scan of ExistOrAdd answers the same and else prepares
\* the bytes that hold them, with these bits OR-ed in.
C15_OffsetFormula ==
    [][\A t \in Threads :
          LET ms == controller.MetadataSize
              P == ExactPositions(param, th[t].e)
          IN  (Scans(t) /\ handle = "open")
                => /\ \A o \in P : 0 <= o /\ o < param.Bits
                   /\ (th'[t].pc = "idle" /\ last'.ret = "true") <=> AllSet(file, ms, P)
                   /\ th'[t].pc = "a_write" => th'[t].m = BytesToWrite(file, ms, P)]_vars

\* C16: the length the file got at creation never changes: no step on a file
\* that has been created (ExistOrAdd, Exist, a tick, Close, New on the file
\* with whatever parameters GetParam returns) changes its length.
C16_FileLengthFixed ==
    [][file.len > 0 => file'.len = file.len]_vars

\* thread t is in the read/write section of Exist or ExistOrAdd or in the
\* flush-and-close section of Close
InSection(t) == th[t].pc \in {"e_scan", "a_scan", "a_write", "c_cs"}

\* the goroutine is at its flush or at the call of the hook
TickerInSection == tpc \in {"t_flush", "t_hook"}

\* C17: mutual exclusion of the control hook. The flush and the hook of the
\* goroutine run only while it holds the mutex, a caller is in its section
\* only while it holds the mutex, and so the goroutine is never at its flush
\* or hook while a caller is in a section, nor two callers at once.
C17_HookMutualExclusion ==
    /\ TickerInSection => mu = "ticker"
    /\ \A t \in Threads : InSection(t) => mu = t
    /\ \A t \in Threads : ~(TickerInSection /\ InSection(t))
    /\ \A t \in Threads : \A u \in Threads \ {t} : ~(InSection(t) /\ InSection(u))

\* the hook is about to be called under the mutex while a caller waits for
\* the mutex in Close
C17_Witness ==
    /\ tpc = "t_hook"
    /\ controller.Control
    /\ mu = "ticker"
    /\ \E t \in Threads : th[t].pc = "c_lock"

\* C18: shutdown of the goroutine. A tick that begins after close(f.closed)
\* ends the goroutine without a flush or a call of the hook; and under fair
\* scheduling, once Close has closed the channel the goroutine stops (or the
\* process has ended in a panic).
C18_BackgroundShutdown ==
    /\ [][(tpc = "wait" /\ closed /\ tpc' # tpc) => tpc' = "off"]_vars
    /\ (closed /\ tpc # "off") ~> (tpc = "off" \/ panicked # "")

\* the goroutine was started, Close has closed the channel once, and the
\* goroutine has stopped while the process runs on
C18_Witness ==
    /\ StartsTicker(controller)
    /\ filter
    /\ closed
    /\ sigCount = 1
    /\ tpc = "off"
    /\ panicked = ""

\* C19: every filter a successful New returns has Bits > 0 and Slots >= 1,
\* whatever GetParam returns, and no call on it divides by zero.
C19_ParamsValid ==
    /\ (filter /\ handle = "open") => (param.Bits > 0 /\ param.Slots >= 1)
    /\ panicked # "integer divide by zero"

\* C20: the goroutine neither flushes nor calls the hook with the handle
\* after Close has closed the handle, also when its tick passed the select
\* on f.closed before Close closed the channel.
C20_TickerNeverUsesClosedHandle ==
    [][/\ (tpc = "t_flush" /\ tpc' # tpc /\ TickFlushes) => handle = "open"
       /\ (tpc = "t_hook" /\ tpc' # tpc /\ controller.Control) => handle = "open"]_vars

====
